---- MODULE Spec2Model ----
(***************************************************************************)
(* The order / activation-key lifecycle of server/src/index.js: the two    *)
(* in-memory maps, the four POST handlers and the two awaited outbound     *)
(* calls (axios.post to the payment processor, bot.sendMessage).           *)
(*                                                                         *)
(* Node runs one handler segment at a time: a handler is atomic up to its  *)
(* next await, so every action below is one such segment.                  *)
(***************************************************************************)
EXTENDS Integers, FiniteSets, Sequences, Bags, TLC

(***************************************************************************)
(* JavaScript values that reach the handlers in JSON bodies.  A value is    *)
(* its type tag and its printed form, so that the number 1 and the string   *)
(* "1" are different Map keys and String() is a real conversion.            *)
(***************************************************************************)
Str(s) == [t |-> "string", v |-> s]
Num(s) == [t |-> "number", v |-> s]
Undefined == [t |-> "undefined", v |-> ""]

\* !x is true of undefined, 0 and "" (index.js:111, 129, 239)
Truthy(x) == ~(x = Undefined \/ x = Num("0") \/ x = Str(""))

\* String(x) (index.js:114, 115, 133, 153, 168, 248)
String(x) ==
    IF x.t = "string" THEN x
    ELSE IF x.t = "number" THEN Str(x.v)
    ELSE Str("undefined")

(***************************************************************************)
(* Map (SameValueZero keys): has / get / set / delete.                      *)
(***************************************************************************)
EmptyMap == [k \in {} |-> Undefined]
MapHas(m, k) == k \in DOMAIN m
MapSet(m, k, e) == [x \in DOMAIN m \cup {k} |-> IF x = k THEN e ELSE m[x]]
MapDelete(m, k) == [x \in DOMAIN m \ {k} |-> m[x]]
\* m.get(k), undef standing for undefined
MapGet(m, k, undef) == IF k \in DOMAIN m THEN m[k] ELSE undef

(***************************************************************************)
(* Bounds of the model.                                                    *)
(***************************************************************************)
\* uuidv4() draws the model follows
MaxKeys == 1
\* createInvoice requests awaiting the processor at one time
MaxAwaitingInvoice == 1
\* webhook handlers awaiting bot.sendMessage at one time
MaxAwaitingSend == 1
\* the same two, where one buyer is followed through redeliveries
MaxKeysBuyer == 2
MaxAwaitingSendBuyer == 2

(***************************************************************************)
(* Request inputs.                                                         *)
(***************************************************************************)
\* chatId as sent by the bot: missing, a number, a string
ChatIdInputs == {Undefined, Num("1"), Str("2")}
UsernameInputs == {Str("ann")}
DisplayNameInputs == {Undefined}
PackageIdInputs == {Undefined, Str("pro")}
AmountInputs == {Num("0"), Num("10")}
CurrencyInputs == {Undefined, Str("USDT")}

\* invoice_id values the processor issues, each at most once.  Telegram chat
\* ids and processor invoice ids are both numeric, and nothing keeps the two
\* apart: "2" is also a chat id.
ProcessorInvoiceIds == {Str("INV1"), Str("2")}

\* the n-th uuidv4(), dashes removed and upper-cased (index.js:101-103);
\* draws of 122 random bits are taken to be pairwise distinct
KeyNames == <<"A1", "B2", "C3", "D4", "E5", "F6">>

\* keys a client presents: none, every key that can be issued, one that is not
ActivationKeyInputs == {Undefined} \cup {Str(KeyNames[i]) : i \in 1..(MaxKeys + 1)}

\* webhook payloads: { status, invoice_id, custom: { chatId } }
\* customChatId is the value of custom?.chatId (index.js:200)
StatusInputs == {"completed", "pending"}
\* INV9 is an invoice id the processor never returned to this process
WebhookInvoiceIds == ProcessorInvoiceIds \cup {Str("INV9")}
WebhookCustomChatIds == {Undefined, Str("1"), Str("2")}
\* the handler reads custom only of a completed payment
Payloads ==
    {p \in [status : StatusInputs, invoice_id : WebhookInvoiceIds,
            customChatId : WebhookCustomChatIds] :
        p.status = "completed" \/ p.customChatId = Undefined}

\* the secret the processor signs with
ProcessorSecret == "s3cret"

VARIABLES
    OXAPAY_CALLBACK_SECRET, \* index.js:60; "" when not configured
    bot,                    \* index.js:73; "TelegramBot" or "null"
    pendingOrders,          \* index.js:80
    activationKeys,         \* index.js:81
    uuids,                  \* number of uuidv4() draws so far
    awaitingInvoice,        \* bag: /api/payments/create suspended at index.js:140
    awaitingSend,           \* bag: /api/oxapay/webhook suspended at index.js:214
    req,                    \* the request whose handler ran last
    res,                    \* what that segment ended with: a response, an await
    invoices,               \* history: the processor's invoices, by invoice_id,
                            \* as createInvoice stored them
    registered,             \* history: chat ids register has stored
    consumed                \* history: keys verify-key has answered 'valid' for

vars ==
    <<OXAPAY_CALLBACK_SECRET, bot, pendingOrders, activationKeys, uuids,
      awaitingInvoice, awaitingSend, req, res, invoices, registered, consumed>>

config == <<OXAPAY_CALLBACK_SECRET, bot>>
history == <<invoices, registered, consumed>>

(***************************************************************************)
(* Store entries.  One record shape for both kinds of pendingOrders entry;  *)
(* a field the code does not set is undefined.  registeredAt / createdAt    *)
(* are wall-clock stamps no handler reads and are left out.                 *)
(***************************************************************************)
\* index.js:114-119
RegistrationEntry(chatId, username, displayName) ==
    [chatId |-> String(chatId), username |-> username,
     displayName |-> displayName, packageId |-> Undefined,
     amount |-> Undefined, currency |-> Undefined]

\* index.js:167-172
InvoiceEntry(chatId, packageId, amount, currency) ==
    [chatId |-> String(chatId), username |-> Undefined,
     displayName |-> Undefined, packageId |-> packageId,
     amount |-> amount, currency |-> currency]

\* pendingOrders.get(k) of a key that is not in the map
NoOrder ==
    [chatId |-> Undefined, username |-> Undefined, displayName |-> Undefined,
     packageId |-> Undefined, amount |-> Undefined, currency |-> Undefined]

\* index.js:206-210
KeyEntry(orderInfo) ==
    [chatId |-> orderInfo.chatId, packageId |-> orderInfo.packageId]

\* activationKeys.get(k) of a key that is not in the map
NoKey == [chatId |-> Undefined, packageId |-> Undefined]

(***************************************************************************)
(* Signature Verifier (index.js:86-96).                                    *)
(***************************************************************************)
\* JSON.stringify(payload): the members in order
JSONstringify(payload) ==
    <<"status", payload.status, "invoice_id", payload.invoice_id,
      "custom.chatId", payload.customChatId>>

\* createHmac('sha256', secret).update(s).digest('hex'): a digest is
\* identified with the key and message it was computed from
HmacSha256Hex(secret, s) == <<secret, s>>

\* no x-oxapay-signature header
NoSignature == <<>>

\* index.js:86-96 without the comparison
verifyOxaPaySignatureNoCheck(payload, providedSignature) == TRUE

\* index.js:86-96 without the early return of line 87-89
verifyOxaPaySignatureAlwaysChecked(payload, providedSignature) ==
    HmacSha256Hex(OXAPAY_CALLBACK_SECRET, JSONstringify(payload))
        = providedSignature

verifyOxaPaySignature(payload, providedSignature) ==
    IF OXAPAY_CALLBACK_SECRET = ""
    THEN TRUE
    ELSE HmacSha256Hex(OXAPAY_CALLBACK_SECRET, JSONstringify(payload))
            = providedSignature

\* the payload as the processor signed it, before its status was altered
Tampered(payload) ==
    [payload EXCEPT !.status = IF @ = "completed" THEN "pending" ELSE "completed"]

\* signatures a request for payload may carry: the processor's, the
\* processor's for the payload before it was tampered with, none
SignatureInputs(payload) ==
    {HmacSha256Hex(ProcessorSecret, JSONstringify(payload)),
     HmacSha256Hex(ProcessorSecret, JSONstringify(Tampered(payload))),
     NoSignature}

(***************************************************************************)
(* generateActivationKey (index.js:101-103)                                *)
(***************************************************************************)
generateActivationKey == Str(KeyNames[uuids + 1])

(***************************************************************************)
(* What the last handler segment was given and how it ended.  A request is  *)
(* its route and body (of a webhook: payload and signature header); the     *)
(* segment is "first" up to the handler's await or return and "resumed"     *)
(* after the await, where only what the code still reads is listed, with    *)
(* how the awaited call settled ("resolved", "rejected").  A                *)
(* segment ends with a response (status code, the body's status / error     *)
(* tag, packageId, invoiceId, and what console.error logged on the way) or  *)
(* at an await.  The event loop then turns (EventLoopTurn) and runs the     *)
(* next segment.                                                           *)
(***************************************************************************)
NoPayload == [status |-> "", invoice_id |-> Undefined, customChatId |-> Undefined]

NoRequest ==
    [op |-> "none", segment |-> "", settled |-> "", chatId |-> Undefined,
     username |-> Undefined, displayName |-> Undefined,
     packageId |-> Undefined, amount |-> Undefined, currency |-> Undefined,
     activationKey |-> Undefined, payload |-> NoPayload,
     signature |-> NoSignature]

Response(op, code, status) ==
    [op |-> op, code |-> code, status |-> status,
     packageId |-> Undefined, invoiceId |-> Undefined, logged |-> ""]

NoResponse == Response("none", 0, "")

\* the handler is suspended at an await and has not answered
Awaiting(op) == Response(op, 0, "await")

\* the event loop is free to run a handler segment
Idle == res.op = "none"

\* the deployment of the README: callback secret set; with or without a bot
\* token.  A validly signed webhook does here all that any webhook does
\* when no secret is set.
Init ==
    /\ OXAPAY_CALLBACK_SECRET = ProcessorSecret
    /\ bot \in {"null", "TelegramBot"}
    /\ pendingOrders = EmptyMap
    /\ activationKeys = EmptyMap
    /\ uuids = 0
    /\ awaitingInvoice = EmptyBag
    /\ awaitingSend = EmptyBag
    /\ req = NoRequest
    /\ res = NoResponse
    /\ invoices = EmptyMap
    /\ registered = {}
    /\ consumed = {}

(***************************************************************************)
(* POST /api/telegram/register (index.js:109-121)                          *)
(***************************************************************************)
\* index.js:109-121 with a set that keeps an entry already under the key
RegisterKeepFirst(chatId, username, displayName) ==
    /\ Idle
    /\ req' = [NoRequest EXCEPT !.op = "register", !.segment = "first",
                                !.chatId = chatId, !.username = username,
                                !.displayName = displayName]
    /\ IF ~Truthy(chatId)
       THEN /\ res' = Response("register", 400, "chatId is required")
            /\ UNCHANGED <<pendingOrders, registered>>
       ELSE /\ pendingOrders' =
                  IF MapHas(pendingOrders, String(chatId))
                  THEN pendingOrders
                  ELSE MapSet(pendingOrders, String(chatId),
                              RegistrationEntry(chatId, username, displayName))
            /\ registered' = registered \cup {String(chatId)}
            /\ res' = Response("register", 200, "registered")
    /\ UNCHANGED <<config, activationKeys, uuids, awaitingInvoice,
                   awaitingSend, invoices, consumed>>

Register(chatId, username, displayName) ==
    /\ Idle
    /\ req' = [NoRequest EXCEPT !.op = "register", !.segment = "first",
                                !.chatId = chatId, !.username = username,
                                !.displayName = displayName]
    /\ IF ~Truthy(chatId)
       THEN /\ res' = Response("register", 400, "chatId is required")
            /\ UNCHANGED <<pendingOrders, registered>>
       ELSE /\ pendingOrders' =
                  MapSet(pendingOrders, String(chatId),
                         RegistrationEntry(chatId, username, displayName))
            /\ registered' = registered \cup {String(chatId)}
            /\ res' = Response("register", 200, "registered")
    /\ UNCHANGED <<config, activationKeys, uuids, awaitingInvoice,
                   awaitingSend, invoices, consumed>>

(***************************************************************************)
(* POST /api/payments/create (index.js:127-182)                            *)
(***************************************************************************)
CreateRequest(chatId, packageId, amount, currency) ==
    [chatId |-> chatId, packageId |-> packageId, amount |-> amount,
     currency |-> currency]

\* request bodies: every field present, or one of them missing / zero
CreateInputs ==
    {r \in [chatId : ChatIdInputs, packageId : PackageIdInputs,
            amount : AmountInputs, currency : CurrencyInputs] :
        Cardinality({f \in {"chatId", "packageId", "amount", "currency"} :
                        ~Truthy(r[f])}) <= 1}

CreateSegment(r, segment, settled) ==
    [NoRequest EXCEPT !.op = "create", !.segment = segment,
                      !.settled = settled,
                      !.chatId = r.chatId, !.packageId = r.packageId,
                      !.amount = r.amount, !.currency = r.currency]

\* index.js:129
CreateFieldsPresent(chatId, packageId, amount, currency) ==
    Truthy(chatId) /\ Truthy(packageId) /\ Truthy(amount) /\ Truthy(currency)

\* index.js:133
IsRegistered(chatId) == MapHas(pendingOrders, String(chatId))

\* index.js:128-140: validation, the registration check, and the request to
\* the processor sent; the handler then waits for the answer
PaymentsCreate(chatId, packageId, amount, currency) ==
    /\ Idle
    /\ req' = CreateSegment(CreateRequest(chatId, packageId, amount, currency),
                            "first", "")
    /\ IF ~CreateFieldsPresent(chatId, packageId, amount, currency)
       THEN /\ res' = Response("create", 400, "fields are required")
            /\ UNCHANGED awaitingInvoice
       ELSE IF ~IsRegistered(chatId)
       THEN /\ res' = Response("create", 404, "Telegram user not registered")
            /\ UNCHANGED awaitingInvoice
       ELSE /\ BagCardinality(awaitingInvoice) < MaxAwaitingInvoice
            /\ awaitingInvoice' = awaitingInvoice (+)
                  SetToBag({CreateRequest(chatId, packageId, amount, currency)})
            /\ res' = Awaiting("create")
    /\ UNCHANGED <<config, pendingOrders, activationKeys, uuids, awaitingSend,
                   history>>

\* index.js:167-172
StoreInvoice(orders, invoice_id, r) ==
    MapSet(orders, invoice_id,
           InvoiceEntry(r.chatId, r.packageId, r.amount, r.currency))

\* index.js:166-177: the processor answered with an invoice
PaymentsCreateResolved(r, invoice_id) ==
    /\ Idle
    /\ BagIn(r, awaitingInvoice)
    /\ invoice_id \notin DOMAIN invoices
    /\ awaitingInvoice' = awaitingInvoice (-) SetToBag({r})
    /\ invoices' = StoreInvoice(invoices, invoice_id, r)
    /\ pendingOrders' = StoreInvoice(pendingOrders, invoice_id, r)
    /\ req' = CreateSegment(r, "resumed", "resolved")
    /\ res' = [Response("create", 200, "created") EXCEPT !.invoiceId = invoice_id]
    /\ UNCHANGED <<config, activationKeys, uuids, awaitingSend, registered,
                   consumed>>

\* index.js:178-181 with a catch block that also drops the buyer's entry
PaymentsCreateRejectedRollback(r) ==
    /\ Idle
    /\ BagIn(r, awaitingInvoice)
    /\ awaitingInvoice' = awaitingInvoice (-) SetToBag({r})
    /\ pendingOrders' = MapDelete(pendingOrders, String(r.chatId))
    /\ req' = CreateSegment(r, "resumed", "rejected")
    /\ res' = [Response("create", 500, "Failed to create payment order")
                  EXCEPT !.logged = "Failed to create OxaPay invoice"]
    /\ UNCHANGED <<config, activationKeys, uuids, awaitingSend, history>>

\* index.js:178-181: the processor call failed or timed out (10 s)
PaymentsCreateRejected(r) ==
    /\ Idle
    /\ BagIn(r, awaitingInvoice)
    /\ awaitingInvoice' = awaitingInvoice (-) SetToBag({r})
    /\ req' = CreateSegment(r, "resumed", "rejected")
    /\ res' = [Response("create", 500, "Failed to create payment order")
                  EXCEPT !.logged = "Failed to create OxaPay invoice"]
    /\ UNCHANGED <<config, pendingOrders, activationKeys, uuids, awaitingSend,
                   history>>

(***************************************************************************)
(* POST /api/oxapay/webhook (index.js:187-231)                             *)
(***************************************************************************)
\* index.js:196 without the comparison
PaymentCompletedAlways(payload) == TRUE

\* index.js:196
PaymentCompleted(payload) == payload.status = "completed"

\* index.js:200 with the two lookups in the other order
OrderInfoCustomFirst(payload) ==
    IF MapGet(pendingOrders, payload.customChatId, NoOrder) # NoOrder
    THEN MapGet(pendingOrders, payload.customChatId, NoOrder)
    ELSE MapGet(pendingOrders, payload.invoice_id, NoOrder)

\* index.js:200
OrderInfo(payload) ==
    IF MapGet(pendingOrders, payload.invoice_id, NoOrder) # NoOrder
    THEN MapGet(pendingOrders, payload.invoice_id, NoOrder)
    ELSE MapGet(pendingOrders, payload.customChatId, NoOrder)

\* index.js:201 without the check
OrderMissingUnchecked(payload) == FALSE

\* index.js:201
OrderMissing(payload) == OrderInfo(payload) = NoOrder

\* index.js:227-228 without the second delete
DeleteOrdersInvoiceOnly(orders, invoiceId, chatId) == MapDelete(orders, invoiceId)

\* index.js:227-228
DeleteOrders(orders, invoiceId, chatId) ==
    MapDelete(MapDelete(orders, invoiceId), chatId)

\* a handler suspended at index.js:214 still reads invoiceId and orderInfo.chatId
SendContext(payload, orderInfo) ==
    [invoiceId |-> payload.invoice_id, chatId |-> orderInfo.chatId]

WebhookSegment(payload, signature) ==
    [NoRequest EXCEPT !.op = "webhook", !.segment = "first",
                      !.payload = payload, !.signature = signature]

\* index.js:188-230 with the deletes of 227-228 moved before the send
WebhookWithinDeleteFirst(payload, signature, maxKeys, maxAwaitingSend) ==
    /\ Idle
    /\ req' = WebhookSegment(payload, signature)
    /\ IF ~verifyOxaPaySignature(payload, signature)
       THEN /\ res' = Response("webhook", 401, "Invalid signature")
            /\ UNCHANGED <<pendingOrders, activationKeys, uuids, awaitingSend>>
       ELSE IF ~PaymentCompleted(payload)
       THEN /\ res' = Response("webhook", 202, "ignored")
            /\ UNCHANGED <<pendingOrders, activationKeys, uuids, awaitingSend>>
       ELSE IF OrderMissing(payload)
       THEN /\ res' = Response("webhook", 404, "Order not found for invoice")
            /\ UNCHANGED <<pendingOrders, activationKeys, uuids, awaitingSend>>
       ELSE /\ uuids < maxKeys
            /\ uuids' = uuids + 1
            /\ activationKeys' =
                  MapSet(activationKeys, generateActivationKey,
                         KeyEntry(OrderInfo(payload)))
            /\ IF bot # "null"
               THEN /\ BagCardinality(awaitingSend) < maxAwaitingSend
                    /\ awaitingSend' = awaitingSend (+)
                          SetToBag({SendContext(payload, OrderInfo(payload))})
                    /\ res' = Awaiting("webhook")
                    /\ pendingOrders' =
                          DeleteOrders(pendingOrders, payload.invoice_id,
                                       OrderInfo(payload).chatId)
               ELSE /\ pendingOrders' =
                          DeleteOrders(pendingOrders, payload.invoice_id,
                                       OrderInfo(payload).chatId)
                    /\ res' = Response("webhook", 200, "ok")
                    /\ UNCHANGED awaitingSend
    /\ UNCHANGED <<config, awaitingInvoice, history>>

\* index.js:188-214, and to the end when messaging is disabled; the model
\* follows at most maxKeys uuidv4() draws and maxAwaitingSend handlers
\* suspended at the send
WebhookWithin(payload, signature, maxKeys, maxAwaitingSend) ==
    /\ Idle
    /\ req' = WebhookSegment(payload, signature)
    /\ IF ~verifyOxaPaySignature(payload, signature)
       THEN /\ res' = Response("webhook", 401, "Invalid signature")
            /\ UNCHANGED <<pendingOrders, activationKeys, uuids, awaitingSend>>
       ELSE IF ~PaymentCompleted(payload)
       THEN /\ res' = Response("webhook", 202, "ignored")
            /\ UNCHANGED <<pendingOrders, activationKeys, uuids, awaitingSend>>
       ELSE IF OrderMissing(payload)
       THEN /\ res' = Response("webhook", 404, "Order not found for invoice")
            /\ UNCHANGED <<pendingOrders, activationKeys, uuids, awaitingSend>>
       ELSE /\ uuids < maxKeys
            /\ uuids' = uuids + 1
            /\ activationKeys' =
                  MapSet(activationKeys, generateActivationKey,
                         KeyEntry(OrderInfo(payload)))
            /\ IF bot # "null"
               THEN /\ BagCardinality(awaitingSend) < maxAwaitingSend
                    /\ awaitingSend' = awaitingSend (+)
                          SetToBag({SendContext(payload, OrderInfo(payload))})
                    /\ res' = Awaiting("webhook")
                    /\ UNCHANGED pendingOrders
               ELSE /\ pendingOrders' =
                          DeleteOrders(pendingOrders, payload.invoice_id,
                                       OrderInfo(payload).chatId)
                    /\ res' = Response("webhook", 200, "ok")
                    /\ UNCHANGED awaitingSend
    /\ UNCHANGED <<config, awaitingInvoice, history>>

Webhook(payload, signature) ==
    WebhookWithin(payload, signature, MaxKeys, MaxAwaitingSend)

\* bot.sendMessage resolves, or rejects and index.js:223-225 logs the failure
SendOutcomes == {"resolved", "rejected"}

\* index.js:223-225
SendLog(outcome) ==
    IF outcome = "rejected" THEN "Failed to send Telegram message" ELSE ""

\* index.js:214-230 without the try / catch around the send: a rejection
\* leaves the handler and Express answers 500
WebhookSentUncaught(ctx, outcome) ==
    /\ Idle
    /\ BagIn(ctx, awaitingSend)
    /\ awaitingSend' = awaitingSend (-) SetToBag({ctx})
    /\ pendingOrders' =
          IF outcome = "rejected" THEN pendingOrders
          ELSE DeleteOrders(pendingOrders, ctx.invoiceId, ctx.chatId)
    /\ req' = [NoRequest EXCEPT !.op = "webhook", !.segment = "resumed",
                                !.settled = outcome,
                                !.chatId = ctx.chatId,
                                !.payload.status = "completed",
                                !.payload.invoice_id = ctx.invoiceId]
    /\ res' = IF outcome = "rejected"
              THEN Response("webhook", 500, "Internal Server Error")
              ELSE Response("webhook", 200, "ok")
    /\ UNCHANGED <<config, activationKeys, uuids, awaitingInvoice, history>>

\* index.js:214-230: bot.sendMessage settled; the handler deletes and answers
WebhookSent(ctx, outcome) ==
    /\ Idle
    /\ BagIn(ctx, awaitingSend)
    /\ awaitingSend' = awaitingSend (-) SetToBag({ctx})
    /\ pendingOrders' = DeleteOrders(pendingOrders, ctx.invoiceId, ctx.chatId)
    /\ req' = [NoRequest EXCEPT !.op = "webhook", !.segment = "resumed",
                                !.settled = outcome,
                                !.chatId = ctx.chatId,
                                !.payload.status = "completed",
                                !.payload.invoice_id = ctx.invoiceId]
    /\ res' = [Response("webhook", 200, "ok") EXCEPT !.logged = SendLog(outcome)]
    /\ UNCHANGED <<config, activationKeys, uuids, awaitingInvoice, history>>

(***************************************************************************)
(* POST /api/telegram/verify-key (index.js:237-254)                        *)
(***************************************************************************)
\* index.js:248 without the comparison
SameOwnerUnchecked(keyInfo, chatId) == TRUE

\* index.js:248
SameOwner(keyInfo, chatId) == String(keyInfo.chatId) = String(chatId)

\* index.js:252 without the delete
ConsumeKeyKept(keys, activationKey) == keys

\* index.js:252
ConsumeKey(keys, activationKey) == MapDelete(keys, activationKey)

\* index.js:237-254 with the delete of line 252 before the owner test
VerifyKeyMismatchConsumes(chatId, activationKey) ==
    /\ Idle
    /\ req' = [NoRequest EXCEPT !.op = "verify", !.segment = "first",
                                !.chatId = chatId,
                                !.activationKey = activationKey]
    /\ IF ~Truthy(chatId) \/ ~Truthy(activationKey)
       THEN /\ res' = Response("verify", 400, "chatId and activationKey are required")
            /\ UNCHANGED <<activationKeys, consumed>>
       ELSE IF MapGet(activationKeys, activationKey, NoKey) = NoKey
       THEN /\ res' = Response("verify", 404, "invalid")
            /\ UNCHANGED <<activationKeys, consumed>>
       ELSE IF ~SameOwner(MapGet(activationKeys, activationKey, NoKey), chatId)
       THEN /\ res' = Response("verify", 403, "mismatch")
            /\ activationKeys' = ConsumeKey(activationKeys, activationKey)
            /\ UNCHANGED consumed
       ELSE /\ activationKeys' = ConsumeKey(activationKeys, activationKey)
            /\ consumed' = consumed \cup {activationKey}
            /\ res' = [Response("verify", 200, "valid") EXCEPT
                          !.packageId = activationKeys[activationKey].packageId]
    /\ UNCHANGED <<config, pendingOrders, uuids, awaitingInvoice, awaitingSend,
                   invoices, registered>>

VerifyKey(chatId, activationKey) ==
    /\ Idle
    /\ req' = [NoRequest EXCEPT !.op = "verify", !.segment = "first",
                                !.chatId = chatId,
                                !.activationKey = activationKey]
    /\ IF ~Truthy(chatId) \/ ~Truthy(activationKey)
       THEN /\ res' = Response("verify", 400, "chatId and activationKey are required")
            /\ UNCHANGED <<activationKeys, consumed>>
       ELSE IF MapGet(activationKeys, activationKey, NoKey) = NoKey
       THEN /\ res' = Response("verify", 404, "invalid")
            /\ UNCHANGED <<activationKeys, consumed>>
       ELSE IF ~SameOwner(MapGet(activationKeys, activationKey, NoKey), chatId)
       THEN /\ res' = Response("verify", 403, "mismatch")
            /\ UNCHANGED <<activationKeys, consumed>>
       ELSE /\ activationKeys' = ConsumeKey(activationKeys, activationKey)
            /\ consumed' = consumed \cup {activationKey}
            /\ res' = [Response("verify", 200, "valid") EXCEPT
                          !.packageId = activationKeys[activationKey].packageId]
    /\ UNCHANGED <<config, pendingOrders, uuids, awaitingInvoice, awaitingSend,
                   invoices, registered>>

\* the segment has returned to the event loop: its response is on the wire,
\* or its handler is parked at the await
EventLoopTurn ==
    /\ ~Idle
    /\ req' = NoRequest
    /\ res' = NoResponse
    /\ UNCHANGED <<config, pendingOrders, activationKeys, uuids,
                   awaitingInvoice, awaitingSend, history>>

Next ==
    \/ EventLoopTurn
    \/ \E chatId \in ChatIdInputs, username \in UsernameInputs,
          displayName \in DisplayNameInputs :
          Register(chatId, username, displayName)
    \/ \E r \in CreateInputs :
          PaymentsCreate(r.chatId, r.packageId, r.amount, r.currency)
    \/ \E r \in BagToSet(awaitingInvoice), invoice_id \in ProcessorInvoiceIds :
          PaymentsCreateResolved(r, invoice_id)
    \/ \E r \in BagToSet(awaitingInvoice) : PaymentsCreateRejected(r)
    \/ \E payload \in Payloads :
          \E signature \in SignatureInputs(payload) : Webhook(payload, signature)
    \/ \E ctx \in BagToSet(awaitingSend), outcome \in SendOutcomes :
          WebhookSent(ctx, outcome)
    \/ \E chatId \in ChatIdInputs, activationKey \in ActivationKeyInputs :
          VerifyKey(chatId, activationKey)

Spec == Init /\ [][Next]_vars

(***************************************************************************)
(* One buyer followed further: chat 1 registers again with changed data,    *)
(* asks for several invoices, and the processor delivers the completed      *)
(* webhook of an invoice more than once, each delivery with the same        *)
(* metadata and a valid signature.                                          *)
(***************************************************************************)
\* the bot sends the chat id as a number or as a string
BuyerChatIds == {Num("1"), Str("1")}
BuyerUsernames == {Str("ann"), Str("bob")}
BuyerPayloads ==
    {p \in Payloads : p.status = "completed" /\ p.invoice_id \in ProcessorInvoiceIds
                          /\ p.customChatId = Str("1")}
BuyerKeyInputs == {Str(KeyNames[i]) : i \in 1..MaxKeysBuyer}

NextBuyer ==
    \/ EventLoopTurn
    \/ \E chatId \in BuyerChatIds, username \in BuyerUsernames :
          Register(chatId, username, Undefined)
    \/ PaymentsCreate(Str("1"), Str("pro"), Num("10"), Str("USDT"))
    \/ \E r \in BagToSet(awaitingInvoice), invoice_id \in ProcessorInvoiceIds :
          PaymentsCreateResolved(r, invoice_id)
    \/ \E r \in BagToSet(awaitingInvoice) : PaymentsCreateRejected(r)
    \/ \E payload \in BuyerPayloads :
          WebhookWithin(payload,
                        HmacSha256Hex(ProcessorSecret, JSONstringify(payload)),
                        MaxKeysBuyer, MaxAwaitingSendBuyer)
    \/ \E ctx \in BagToSet(awaitingSend), outcome \in SendOutcomes :
          WebhookSent(ctx, outcome)
    \/ \E activationKey \in BuyerKeyInputs : VerifyKey(Str("1"), activationKey)

SpecBuyer == Init /\ [][NextBuyer]_vars

(***************************************************************************)
(* The deployment without a callback secret: index.js:60 yields undefined   *)
(* and verifyOxaPaySignature takes its first branch.                        *)
(***************************************************************************)
InitOpen ==
    /\ OXAPAY_CALLBACK_SECRET = ""
    /\ bot \in {"null", "TelegramBot"}
    /\ pendingOrders = EmptyMap
    /\ activationKeys = EmptyMap
    /\ uuids = 0
    /\ awaitingInvoice = EmptyBag
    /\ awaitingSend = EmptyBag
    /\ req = NoRequest
    /\ res = NoResponse
    /\ invoices = EmptyMap
    /\ registered = {}
    /\ consumed = {}

SpecOpen == InitOpen /\ [][Next]_vars

(***************************************************************************)
(* Properties.                                                             *)
(***************************************************************************)
stores == <<pendingOrders, activationKeys>>

\* the hex digest the configured secret gives for the request's payload
Authentic(r) ==
    r.signature = HmacSha256Hex(OXAPAY_CALLBACK_SECRET, JSONstringify(r.payload))

\* C1: single use.  Once verify-key has answered 'valid' for an activation
\* key, every later verify-key that presents the key, with whatever chat id,
\* answers 404 'invalid' and consumes nothing; so a key is consumed at most
\* once.  verify-key has no await: two requests for one key run one after
\* the other.
SingleUse ==
    [][(req'.op = "verify" /\ Truthy(req'.chatId)
            /\ req'.activationKey \in consumed)
        => (res'.code = 404 /\ res'.status = "invalid"
            /\ UNCHANGED <<activationKeys, consumed>>)]_vars

\* a consumed key was presented again by the chat that had bought it, and
\* refused
SingleUseWitness ==
    /\ req.op = "verify"
    /\ req.activationKey \in consumed
    /\ \E k \in DOMAIN invoices : invoices[k].chatId = String(req.chatId)
    /\ res.code = 404

\* C2: verify-key with a key that is in the store and a chat id other than
\* the key's owner answers 403 'mismatch' and changes neither store: the key
\* is still there, with the same owner.
MismatchKeepsKey ==
    [][(/\ req'.op = "verify"
        /\ Truthy(req'.chatId)
        /\ req'.activationKey \in DOMAIN activationKeys
        /\ String(req'.chatId) # activationKeys[req'.activationKey].chatId)
        => (res'.code = 403 /\ res'.status = "mismatch" /\ UNCHANGED stores)]_vars

\* a key was presented by a chat that does not own it and is still stored
MismatchWitness ==
    /\ req.op = "verify"
    /\ res.code = 403
    /\ req.activationKey \in DOMAIN activationKeys
    /\ activationKeys[req.activationKey].chatId # String(req.chatId)

\* C3: createInvoice with all four fields present, for a chat id register has
\* never stored, answers 404 and writes nothing.
CreateBeforeRegisterFails ==
    [][(/\ req'.op = "create"
        /\ req'.segment = "first"
        /\ CreateFieldsPresent(req'.chatId, req'.packageId, req'.amount,
                               req'.currency)
        /\ String(req'.chatId) \notin registered)
        => (res'.code = 404 /\ UNCHANGED <<stores, awaitingInvoice>>)]_vars

\* C4, as claimed: a webhook whose status is not 'completed' always answers
\* 202 'ignored' and changes neither store.
NotCompletedAlwaysIgnored ==
    [][(req'.op = "webhook" /\ req'.segment = "first"
            /\ req'.payload.status # "completed")
        => (res'.code = 202 /\ res'.status = "ignored" /\ UNCHANGED stores)]_vars

\* C4, amended: a webhook whose status is not 'completed' changes neither
\* store and creates no key; it answers 202 'ignored' when its signature
\* passes and 401 when it does not.
NotCompletedIgnored ==
    [][(req'.op = "webhook" /\ req'.segment = "first"
            /\ req'.payload.status # "completed")
        => /\ UNCHANGED <<stores, uuids, awaitingSend>>
           /\ IF Authentic(req')
              THEN res'.code = 202 /\ res'.status = "ignored"
              ELSE res'.code = 401]_vars

\* a webhook was ignored while the order it names was pending
NotCompletedWitness ==
    /\ req.op = "webhook"
    /\ res.code = 202
    /\ req.payload.invoice_id \in DOMAIN pendingOrders

\* C5: with a callback secret configured, a webhook whose signature is not
\* the keyed hash of its payload answers 401, whatever the payload says, and
\* changes neither store: no key is created, no order deleted.
BadSignatureRejected ==
    [][(/\ req'.op = "webhook"
        /\ req'.segment = "first"
        /\ OXAPAY_CALLBACK_SECRET # ""
        /\ ~Authentic(req'))
        => (/\ res'.code = 401
            /\ res'.status = "Invalid signature"
            /\ UNCHANGED <<stores, uuids, awaitingSend>>)]_vars

\* a completed webhook naming a pending order was refused for its signature
BadSignatureWitness ==
    /\ OXAPAY_CALLBACK_SECRET # ""
    /\ req.op = "webhook"
    /\ res.code = 401
    /\ req.payload.status = "completed"
    /\ req.payload.invoice_id \in DOMAIN pendingOrders

\* C6: end to end.  While the invoice entry that createInvoice stored for
\* chat c and package p is pending, a completed, authentic webhook for that
\* invoice id does not answer 404 and issues a key owned by c for package p;
\* the suspended handler answers 'ok'; verify-key by the owner of a stored
\* key answers 'valid' with the key's package.
EndToEnd ==
    [][/\ (/\ req'.op = "webhook"
           /\ req'.segment = "first"
           /\ Authentic(req')
           /\ req'.payload.status = "completed"
           /\ req'.payload.invoice_id \in DOMAIN invoices
           /\ req'.payload.invoice_id \in DOMAIN pendingOrders)
          => /\ res'.status \in {"ok", "await"}
             /\ activationKeys' =
                  MapSet(activationKeys, generateActivationKey,
                         KeyEntry(invoices[req'.payload.invoice_id]))
       /\ (req'.op = "webhook" /\ req'.segment = "resumed")
          => (res'.code = 200 /\ res'.status = "ok")
       /\ (/\ req'.op = "verify"
           /\ Truthy(req'.chatId)
           /\ req'.activationKey \in DOMAIN activationKeys
           /\ String(req'.chatId) = activationKeys[req'.activationKey].chatId)
          => /\ res'.code = 200
             /\ res'.status = "valid"
             /\ res'.packageId = activationKeys[req'.activationKey].packageId
             /\ req'.activationKey \notin DOMAIN activationKeys']_vars

OrderResolution ==
    [][(/\ req'.op = "webhook"
        /\ req'.segment = "first"
        /\ Authentic(req')
        /\ req'.payload.status = "completed")
        => LET invoiceId == req'.payload.invoice_id
               chatId == req'.payload.customChatId
           IN  IF invoiceId \notin DOMAIN pendingOrders
                  /\ chatId \notin DOMAIN pendingOrders
               THEN /\ res'.code = 404
                    /\ UNCHANGED <<stores, uuids, awaitingSend>>
               ELSE /\ res'.code # 404
                    /\ activationKeys' =
                         MapSet(activationKeys, generateActivationKey,
                                KeyEntry(IF invoiceId \in DOMAIN pendingOrders
                                         THEN pendingOrders[invoiceId]
                                         ELSE pendingOrders[chatId]))]_vars

\* a webhook for an invoice id the processor never issued was resolved by
\* the chat id of its metadata
OrderResolutionWitness ==
    /\ req.op = "webhook"
    /\ req.segment = "first"
    /\ req.payload.invoice_id \notin ProcessorInvoiceIds
    /\ req.payload.customChatId \in registered
    /\ res.status \in {"ok", "await"}
    /\ \E k \in DOMAIN activationKeys :
          activationKeys[k].chatId = req.payload.customChatId

FailedInvoiceLeavesNoState ==
    [][/\ (req'.op = "create" /\ req'.settled = "rejected")
          => (res'.code = 500 /\ UNCHANGED stores)
       /\ (req'.op = "create" /\ req'.segment = "first") => UNCHANGED stores
       /\ res'.code = 500 => (req'.op = "create" /\ UNCHANGED stores)]_vars

\* the call failed for a registered chat whose entry is still there
FailedInvoiceWitness ==
    /\ req.op = "create"
    /\ req.settled = "rejected"
    /\ res.code = 500
    /\ String(req.chatId) \in DOMAIN pendingOrders
    /\ DOMAIN invoices = {}

\* C11: notification failure is not fatal.  Whether bot.sendMessage resolved
\* or rejected, the handler that waited for it answers 200 'ok', leaves the
\* key store as it is (the key was stored before the send) and deletes the
\* entries under the invoice id and the order's chat id; a rejection only
\* adds a log line.  With messaging disabled the webhook that found its
\* order stores the key, deletes the same two entries and answers 'ok' at
\* once.
NotificationFailureNotFatal ==
    [][/\ (req'.op = "webhook" /\ req'.segment = "resumed")
          => /\ res'.code = 200
             /\ res'.status = "ok"
             /\ activationKeys' = activationKeys
             /\ pendingOrders' = DeleteOrders(pendingOrders,
                                              req'.payload.invoice_id, req'.chatId)
             /\ (res'.logged # "") = (req'.settled = "rejected")
       /\ (req'.op = "webhook" /\ req'.segment = "first"
              /\ res'.status = "await")
          => /\ bot # "null"
             /\ generateActivationKey \in DOMAIN activationKeys'
       /\ (req'.op = "webhook" /\ req'.segment = "first" /\ bot = "null"
              /\ res'.code \notin {401, 202, 404})
          => /\ res'.code = 200
             /\ res'.status = "ok"
             /\ generateActivationKey \in DOMAIN activationKeys'
             /\ pendingOrders' =
                  DeleteOrders(pendingOrders, req'.payload.invoice_id,
                               activationKeys'[generateActivationKey].chatId)]_vars

\* the send failed; the webhook answered 'ok', the key issued for the invoice
\* is in the store and the order's entries are gone
NotificationFailureWitness ==
    /\ req.op = "webhook"
    /\ req.settled = "rejected"
    /\ res.code = 200
    /\ res.logged = "Failed to send Telegram message"
    /\ req.payload.invoice_id \in DOMAIN invoices
    /\ req.payload.invoice_id \notin DOMAIN pendingOrders
    /\ req.chatId \notin DOMAIN pendingOrders
    /\ \E k \in DOMAIN activationKeys :
          activationKeys[k] = KeyEntry(invoices[req.payload.invoice_id])

\* C12: register is idempotent.  A register with a chat id leaves, under
\* String(chatId), one entry holding the data of this registration, whatever
\* was under that key; every other entry of the pending-order store and the
\* whole key store are as before.
RegisterIdempotent ==
    [][(req'.op = "register" /\ Truthy(req'.chatId))
        => /\ res'.code = 200
           /\ DOMAIN pendingOrders' = DOMAIN pendingOrders \cup {String(req'.chatId)}
           /\ pendingOrders'[String(req'.chatId)] =
                 RegistrationEntry(req'.chatId, req'.username, req'.displayName)
           /\ \A k \in DOMAIN pendingOrders \ {String(req'.chatId)} :
                 pendingOrders'[k] = pendingOrders[k]
           /\ activationKeys' = activationKeys]_vars

\* the chat registered again with another username while an invoice of its
\* own and a key were in the stores
RegisterTwiceWitness ==
    /\ req.op = "register"
    /\ req.username = Str("bob")
    /\ res.code = 200
    /\ String(req.chatId) \in registered
    /\ pendingOrders[String(req.chatId)].username = Str("bob")
    /\ \E k \in DOMAIN pendingOrders : pendingOrders[k].packageId # Undefined
    /\ activationKeys # EmptyMap

\* C13: fail-open.  With no callback secret configured the webhook handler
\* never answers 401: whatever signature the request carries, or none, a
\* webhook that is not completed is answered 202, a completed one that finds
\* no order 404, and a completed one that finds its order issues a key.
FailOpen ==
    [][(OXAPAY_CALLBACK_SECRET = "" /\ req'.op = "webhook"
           /\ req'.segment = "first")
        => /\ res'.code # 401
           /\ IF req'.payload.status # "completed"
              THEN res'.code = 202
              ELSE IF req'.payload.invoice_id \notin DOMAIN pendingOrders
                      /\ req'.payload.customChatId \notin DOMAIN pendingOrders
              THEN res'.code = 404
              ELSE /\ res'.status \in {"ok", "await"}
                   /\ generateActivationKey \in DOMAIN activationKeys']_vars

\* without a secret, a webhook with no signature header issued a key
FailOpenWitness ==
    /\ OXAPAY_CALLBACK_SECRET = ""
    /\ req.op = "webhook"
    /\ req.segment = "first"
    /\ req.signature = NoSignature
    /\ res.status \in {"ok", "await"}
    /\ activationKeys # EmptyMap

\* C14: double issue.  The webhook handler that finds its order and has a
\* bot stores the key and suspends at the send with both pendingOrders
\* entries still in place; a delivery for the same invoice id that arrives
\* while a handler is so suspended passes the lookup as well and stores a
\* further key for the same buyer and package.
SecondDeliveryIssuesToo ==
    [][/\ (req'.op = "webhook" /\ req'.segment = "first"
              /\ res'.status = "await")
          => /\ pendingOrders' = pendingOrders
             /\ generateActivationKey \in DOMAIN activationKeys'
       /\ (/\ req'.op = "webhook"
           /\ req'.segment = "first"
           /\ Authentic(req')
           /\ req'.payload.status = "completed"
           /\ req'.payload.invoice_id \in DOMAIN pendingOrders
           /\ \E ctx \in BagToSet(awaitingSend) :
                 ctx.invoiceId = req'.payload.invoice_id)
          => /\ res'.code # 404
             /\ generateActivationKey \notin DOMAIN activationKeys
             /\ activationKeys' =
                  MapSet(activationKeys, generateActivationKey,
                         KeyEntry(pendingOrders[req'.payload.invoice_id]))]_vars

\* one invoice was created; two deliveries of its webhook are suspended at
\* the send, and two keys are in the store for it
DoubleIssueWitness ==
    /\ Cardinality(DOMAIN invoices) = 1
    /\ \E I \in DOMAIN invoices :
          /\ \E ctx \in BagToSet(awaitingSend) :
                ctx.invoiceId = I /\ CopiesIn(ctx, awaitingSend) = 2
          /\ \E k1, k2 \in DOMAIN activationKeys :
                /\ k1 # k2
                /\ activationKeys[k1] = KeyEntry(invoices[I])
                /\ activationKeys[k2] = KeyEntry(invoices[I])

\* an entry createInvoice wrote: it has a package
IsInvoiceEntry(e) == e.packageId # Undefined

\* C15: dual-entry invariant.  In every reachable state, whenever the
\* pending-order store holds an invoice entry for chat id c, it also holds
\* an entry under the key c.
DualEntry ==
    \A k \in DOMAIN pendingOrders :
        IsInvoiceEntry(pendingOrders[k])
            => pendingOrders[k].chatId \in DOMAIN pendingOrders

\* C16: one buyer and one package per key.  Every key in the store has a
\* package, and that package is the one of an invoice createInvoice stored
\* for the key's chat id.
KeyHasBuyerAndPackage ==
    \A k \in DOMAIN activationKeys :
        /\ activationKeys[k].packageId # Undefined
        /\ \E I \in DOMAIN invoices :
              /\ invoices[I].chatId = activationKeys[k].chatId
              /\ invoices[I].packageId = activationKeys[k].packageId

\* C17: lifecycle frame.  An entry of the pending-order store is added or
\* overwritten only by a register or a createInvoice that answers 200 and
\* removed only by a webhook that answers 'ok'; a key is added only by a
\* webhook on its way to 'ok' and removed only by a verify-key that answers
\* 'valid'; a request answered 400, 401, 202, 403, 404 or 500 changes
\* neither store.
LifecycleFrame ==
    [][/\ (\E k \in DOMAIN pendingOrders' :
              k \notin DOMAIN pendingOrders \/ pendingOrders'[k] # pendingOrders[k])
          => (req'.op \in {"register", "create"} /\ res'.code = 200)
       /\ (DOMAIN pendingOrders \ DOMAIN pendingOrders' # {})
          => (req'.op = "webhook" /\ res'.code = 200 /\ res'.status = "ok")
       /\ (\E k \in DOMAIN activationKeys' :
              k \notin DOMAIN activationKeys \/ activationKeys'[k] # activationKeys[k])
          => (req'.op = "webhook" /\ req'.segment = "first"
                 /\ res'.status \in {"ok", "await"})
       /\ (DOMAIN activationKeys \ DOMAIN activationKeys' # {})
          => (req'.op = "verify" /\ res'.code = 200 /\ res'.status = "valid")
       /\ res'.code \in {400, 401, 202, 403, 404, 500} => UNCHANGED stores]_vars

\* a createInvoice failed with 500 while an order and a key were in the
\* stores
LifecycleFrameWitness ==
    /\ res.code = 500
    /\ \E k \in DOMAIN pendingOrders : IsInvoiceEntry(pendingOrders[k])
    /\ activationKeys # EmptyMap

\* C18: no reuse by replay.  Messaging is disabled, so webhook deliveries
\* never overlap, and every delivery carries the same metadata.  An invoice
\* entry that createInvoice stored and that is gone was deleted by a webhook
\* for its invoice id that answered 'ok'; every later completed webhook for
\* that invoice id answers 404 and issues no key.
NoReplay ==
    [][(/\ bot = "null"
        /\ req'.op = "webhook"
        /\ req'.segment = "first"
        /\ Authentic(req')
        /\ req'.payload.status = "completed"
        /\ req'.payload.invoice_id \in DOMAIN invoices
        /\ req'.payload.invoice_id \notin DOMAIN pendingOrders)
        => (/\ res'.code = 404
            /\ activationKeys' = activationKeys
            /\ uuids' = uuids)]_vars

\* C19: payment precedes issuance.  Whenever a webhook issues a key, a
\* createInvoice for the key's chat id has succeeded before and stored its
\* invoice.
PaymentPrecedesIssuance ==
    [][uuids' # uuids
        => \E I \in DOMAIN invoices :
              invoices[I].chatId = activationKeys'[generateActivationKey].chatId]_vars

====
